---- MODULE Spec2Model ----
(***************************************************************************)
(* State-machine model of the InteractiveVideoSDK widget                   *)
(* (src/unnamed/part_002): the option-set store and its resolution         *)
(* protocol, the option dispatch, the playback state driven through the    *)
(* media element, and the session visibility gate.                         *)
(*                                                                         *)
(* JavaScript arrays are objects: optionSets, interactiveOptions and the   *)
(* value a resolution returns hold REFERENCES to arrays, so the model      *)
(* keeps a heap of arrays (arrays) and stores addresses everywhere the     *)
(* code stores an array.                                                   *)
(***************************************************************************)
EXTENDS Naturals, Sequences, FiniteSets, TLC

\* ------------------------------------------------------------------ bounds
\* Resolutions (changeInteractiveOptions calls) that may be suspended at once.
MaxInFlight == 2
\* Copies of one option the host pushes onto one option array.
MaxCopies == 1
\* Longest video list addVideo is allowed to build.
MaxVideos == 2
\* Playback positions the model tells apart (0 is the start).
MaxTime == 1

\* --------------------------------------------------------------- universes
Null == "<null>"

\* InteractiveOption objects ({id, text, action, payload}) the host and the
\* remote endpoint use.
optPlayB == [id |-> "watch-b", text |-> "Watch B", action |-> "playVideo", payload |-> "b"]
optMenu == [id |-> "more", text |-> "More", action |-> "changeOptions", payload |-> "menu"]
optChat == [id |-> "chat", text |-> "Contact", action |-> "startChat", payload |-> "hi"]
optUrl == [id |-> "site", text |-> "Website", action |-> "openUrl", payload |-> "https://example.com"]
\* The "Back" option of the demo page: ChangeOptions to an id, 'default', that
\* neither the page nor the widget registers a set under.
optBack == [id |-> "back", text |-> "Back", action |-> "changeOptions", payload |-> "default"]

\* Ids an option set can be asked for, in a fixed order.  The entries of
\* optionSets are independent of one another, so one id shows every case.
SetIdSeq == <<"menu">>
SetIds == {SetIdSeq[k] : k \in DOMAIN SetIdSeq}
\* Option lists the host registers through addOptionSet.
HostLists == {<<optChat>>}
\* Options the host adds through addInteractiveOption.
HostOptions == {optMenu}
\* Option ids the host passes to removeInteractiveOption.
HostOptionIds == {"more"}
\* JSON arrays the remote endpoint answers a 2xx with.
RemoteLists == {<<>>, <<optUrl>>}
\* Ways the remote request fails: a non-2xx status, a rejected fetch.
Failures == {"status", "transport"}
\* Values the host passes to setApiUrl.
ApiUrls == {"https://api.example"}

VARIABLES
  arrays,              \* heap: address -> InteractiveOption[] (the array's elements)
  optionSets,          \* Map<string, InteractiveOption[]>: set id -> address
  interactiveOptions,  \* address of the active option array
  rendered,            \* options the buttons of optionsContainer are bound to
  apiUrl,              \* string | null
  pending,             \* suspended changeInteractiveOptions calls, in dispatch order
  appliedStale         \* history: the continuation that ran last belonged to a call
                       \* a later-dispatched call had overtaken

optVars == <<arrays, optionSets, interactiveOptions, rendered, apiUrl, pending, appliedStale>>

VARIABLES
  videos,                   \* Video[]: the video list
  currentVideoId,           \* string | null
  adding,                   \* videos addVideo is still fetching the source of
  videoElement,             \* the media element: src, paused, currentTime and its
                            \* queued 'play' and 'loadedmetadata' events
  videoTimeUpdateCallback,  \* the registered time-update observer, or null
  isMinimized,              \* boolean
  containerDisplay,         \* container.style.display
  widgetDisplay,            \* widget.style.display
  minimizedDisplay,         \* minimizedWidget.style.display
  sessionClosed             \* sessionStorage holds interactiveVideoWidgetClosed = 'true'

playVars == <<videos, currentVideoId, adding, videoElement, videoTimeUpdateCallback>>
gateVars == <<isMinimized, containerDisplay, widgetDisplay, minimizedDisplay, sessionClosed>>

VARIABLES
  revision,  \* which revision of the class runs: the two differ in playback only
  reported,  \* what the last step wrote to the console (Silent: nothing)
  observed   \* the call the last step made to the host's time-update observer
             \* (NoCall: none)

codeVars == <<revision, reported, observed>>

VARIABLES
  loadQueue  \* loadVideos: the videos of the configured list its loop has still
             \* to fetch; the head is the one whose fetch it awaits

loadVars == <<loadQueue>>

vars == <<optVars, playVars, gateVars, codeVars, loadVars>>

\* The revisions of InteractiveVideoSDK in the repository: the entry point of
\* the build (src/InteractiveVideoSDK.ts, its second class) and the later one
\* with videoElement, stopAllAudio and onVideoTimeUpdate.
Revisions == {"entry", "later"}

\* Console output.
Silent == "<nothing>"
WarnNoOptions == "No options found for ID"
ErrorFetchOptions == "Failed to fetch options:"
ErrorPlaying == "Error playing video:"
ErrorIntercom == "Intercom is not available"
ErrorLoadVideo == "Failed to load video"

\* No call of the observer.
NoCall == [callback |-> Null, currentTime |-> 0, duration |-> 0, videoId |-> ""]

\* A step of loadVideos that writes msg to the console, or nothing: it calls no
\* observer.
LoadReport(msg) == reported' = msg /\ observed' = NoCall /\ UNCHANGED revision

\* A step of any other handler that writes msg to the console, or nothing: it
\* calls no observer and leaves the loop of loadVideos where it is.
Report(msg) == LoadReport(msg) /\ UNCHANGED loadQueue
Quiet == Report(Silent)

\* ------------------------------------------------------------------- heap
\* Addresses are opaque: only which references are equal matters.  Every step
\* ends by dropping the arrays no reference reaches and renaming the others
\* 1..n in the order their first reference appears in RootSeq, so two states
\* that differ only in the names of the arrays are one state.

\* A fresh array object.
NewAddr(h) == Len(h) + 1

Store(h, a, list) == IF a \in DOMAIN h THEN [h EXCEPT ![a] = list] ELSE Append(h, list)

\* The references the program holds: the map's values (0 for an absent id), the
\* active list and the values held by suspended calls (0 while fetching).
RootSeq(sets, active, pend) ==
  [k \in 1..(Len(SetIdSeq) + 1 + Len(pend)) |->
     IF k <= Len(SetIdSeq)
     THEN (IF SetIdSeq[k] \in DOMAIN sets THEN sets[SetIdSeq[k]] ELSE 0)
     ELSE IF k = Len(SetIdSeq) + 1 THEN active
     ELSE pend[k - Len(SetIdSeq) - 1].ref]

\* The distinct references of rs[k..], in the order they first appear, after acc.
RECURSIVE InOrder(_, _, _)
InOrder(rs, k, acc) ==
  IF k > Len(rs) THEN acc
  ELSE IF rs[k] = 0 \/ \E n \in DOMAIN acc : acc[n] = rs[k] THEN InOrder(rs, k + 1, acc)
  ELSE InOrder(rs, k + 1, Append(acc, rs[k]))

\* The new name of address a: its place in order (0, no reference, stays 0).
Rename(order, a) == IF a = 0 THEN 0 ELSE CHOOSE n \in DOMAIN order : order[n] = a

\* A truthiness test that lets null through (the fault of testing apiUrl
\* against '' only).
TruthyButNull(s) == s # ""

\* The truthiness of a string or null: if (this.apiUrl), options.apiUrl || null.
Truthy(s) == s # Null /\ s # ""

\* Map.set / Map.delete
MapSet(m, k, v) == [x \in DOMAIN m \cup {k} |-> IF x = k THEN v ELSE m[x]]
MapDelete(m, k) == [x \in DOMAIN m \ {k} |-> m[x]]

\* s without its i-th element
RemoveAt(s, i) == [j \in 1..(Len(s) - 1) |-> IF j < i THEN s[j] ELSE s[j + 1]]

\* How many elements of s are the option o.
Copies(s, o) == Cardinality({k \in DOMAIN s : s[k] = o})

\* Array.prototype.filter(o => o.id !== id)
RECURSIVE WithoutId(_, _)
WithoutId(s, id) ==
  IF s = <<>> THEN <<>>
  ELSE IF Head(s).id # id THEN <<Head(s)>> \o WithoutId(Tail(s), id)
  ELSE WithoutId(Tail(s), id)

\* The step's result (heap h, map sets, active list at address active, suspended
\* calls pend) becomes the next state.
Commit(h, sets, active, pend) ==
  LET order == InOrder(RootSeq(sets, active, pend), 1, <<>>)
  IN /\ arrays' = [n \in DOMAIN order |-> h[order[n]]]
     /\ optionSets' = [id \in DOMAIN sets |-> Rename(order, sets[id])]
     /\ interactiveOptions' = Rename(order, active)
     /\ pending' = [i \in DOMAIN pend |-> [pend[i] EXCEPT !.ref = Rename(order, @)]]

\* ------------------------------------------------------ option-set store
\* The options a configuration passes to the constructor.
ConfigOptions == <<optPlayB, optChat, optUrl>>
ConfigOptionSets == {<<>>, <<"menu", <<optPlayB>>>>}
ConfigApiUrls == {Null, "", "https://api.example"}

\* A suspended changeInteractiveOptions(id) call.  pc "fetching": fetchOptions
\* awaits the remote response; pc "resolved": fetchOptions has returned ref and
\* the continuation of changeInteractiveOptions is queued, turn being its place
\* in the queue.  how and overtaken are history: where the value came from, and
\* whether a call dispatched later has already been applied.
Call(id, pc, ref, how, turn) ==
  [id |-> id, pc |-> pc, ref |-> ref, how |-> how, turn |-> turn, overtaken |-> FALSE]

Queued(pend) == {i \in DOMAIN pend : pend[i].pc = "resolved"}

NextTurn(pend) == Cardinality(Queued(pend)) + 1

\* A fetchOptions that asks the endpoint before it looks in the map.
FetchOptionsUncached(optionsId, h, sets, url, pend) ==
  IF Truthy(url)
  THEN [call |-> Call(optionsId, "fetching", 0, "remote", 0), heap |-> h]
  ELSE IF optionsId \in DOMAIN sets
  THEN [call |-> Call(optionsId, "resolved", sets[optionsId], "cache", NextTurn(pend)), heap |-> h]
  ELSE [call |-> Call(optionsId, "resolved", NewAddr(h), "none", NextTurn(pend)),
        heap |-> Store(h, NewAddr(h), <<>>)]

\* fetchOptions up to its first suspension or its return.
\* A fetchOptions that answers an id it finds nowhere with the array that is
\* active, where the code answers with a new empty one.
FetchOptionsKeeping(optionsId, h, sets, url, pend) ==
  IF optionsId \in DOMAIN sets
  THEN [call |-> Call(optionsId, "resolved", sets[optionsId], "cache", NextTurn(pend)),
        heap |-> h]
  ELSE IF Truthy(url)
  THEN [call |-> Call(optionsId, "fetching", 0, "remote", 0), heap |-> h]
  ELSE [call |-> Call(optionsId, "resolved", interactiveOptions, "none", NextTurn(pend)),
        heap |-> h]

FetchOptionsCall(optionsId, h, sets, url, pend) ==
  IF optionsId \in DOMAIN sets
  THEN [call |-> Call(optionsId, "resolved", sets[optionsId], "cache", NextTurn(pend)),
        heap |-> h]
  ELSE IF Truthy(url)
  THEN [call |-> Call(optionsId, "fetching", 0, "remote", 0), heap |-> h]
  ELSE [call |-> Call(optionsId, "resolved", NewAddr(h), "none", NextTurn(pend)),
        heap |-> Store(h, NewAddr(h), <<>>)]

\* A fetchOptions without its console.warn.
FetchOptionsSilent(optionsId, sets, url) == Silent

\* What fetchOptions writes to the console before its first suspension or its
\* return: the warning that no set and no endpoint is there.
FetchOptionsReport(optionsId, sets, url) ==
  IF optionsId \notin DOMAIN sets /\ ~Truthy(url) THEN WarnNoOptions ELSE Silent

\* A changeInteractiveOptions that clears the buttons while its request is
\* outstanding.
ChangeOptionsClearing(optionsId) ==
  /\ Len(pending) < MaxInFlight
  /\ LET c == FetchOptionsCall(optionsId, arrays, optionSets, apiUrl, pending)
     IN /\ Commit(c.heap, optionSets, interactiveOptions, Append(pending, c.call))
        /\ rendered' = IF c.call.pc = "fetching" THEN <<>> ELSE rendered
  /\ UNCHANGED <<apiUrl, appliedStale>>
  /\ Report(FetchOptionsReport(optionsId, optionSets, apiUrl))

\* changeInteractiveOptions(optionsId) up to its await.
ChangeOptionsEffect(optionsId) ==
  /\ Len(pending) < MaxInFlight
  /\ LET c == FetchOptionsCall(optionsId, arrays, optionSets, apiUrl, pending)
     IN Commit(c.heap, optionSets, interactiveOptions, Append(pending, c.call))
  /\ UNCHANGED <<rendered, apiUrl, appliedStale>>
  /\ Report(FetchOptionsReport(optionsId, optionSets, apiUrl))

\* A fetchOptions that returns the parsed array without the optionSets.set.
FetchOptionsOkUnstored(i, list, h, sets, pend) ==
  [sets |-> sets,
   heap |-> Store(h, NewAddr(h), list),
   pend |-> [pend EXCEPT ![i] = [@ EXCEPT !.pc = "resolved", !.ref = NewAddr(h),
                                          !.turn = NextTurn(pend)]]]

\* A fetchOptions that leaves an entry alone which another request for the id
\* has written while its own was in flight.
FetchOptionsOkFirstWins(i, list, h, sets, pend) ==
  [sets |-> IF pend[i].id \in DOMAIN sets THEN sets ELSE MapSet(sets, pend[i].id, NewAddr(h)),
   heap |-> Store(h, NewAddr(h), list),
   pend |-> [pend EXCEPT ![i] = [@ EXCEPT !.pc = "resolved", !.ref = NewAddr(h),
                                          !.turn = NextTurn(pend)]]]

\* fetchOptions after a 2xx answer carrying a JSON array: the parsed array is
\* stored under the id and returned.
FetchOptionsOk(i, list, h, sets, pend) ==
  [sets |-> MapSet(sets, pend[i].id, NewAddr(h)),
   heap |-> Store(h, NewAddr(h), list),
   pend |-> [pend EXCEPT ![i] = [@ EXCEPT !.pc = "resolved", !.ref = NewAddr(h),
                                          !.turn = NextTurn(pend)]]]

FetchResponseOk(i, list) ==
  /\ i \in DOMAIN pending
  /\ pending[i].pc = "fetching"
  /\ LET r == FetchOptionsOk(i, list, arrays, optionSets, pending)
     IN Commit(r.heap, r.sets, interactiveOptions, r.pend)
  /\ UNCHANGED <<rendered, apiUrl, appliedStale>>
  /\ Quiet

\* A fetchOptions whose catch stores the [] it returns under the id.
FetchOptionsFailedCached(i, h, sets, pend) ==
  [sets |-> MapSet(sets, pend[i].id, NewAddr(h)),
   heap |-> Store(h, NewAddr(h), <<>>),
   pend |-> [pend EXCEPT ![i] = [@ EXCEPT !.pc = "resolved", !.ref = NewAddr(h),
                                          !.how = "failed", !.turn = NextTurn(pend)]]]

\* A fetchOptions whose catch throws the failure on: the call ends there and
\* its continuation never runs.
FetchOptionsFailedRethrown(i, h, sets, pend) ==
  [sets |-> sets,
   heap |-> h,
   pend |-> [pend EXCEPT ![i] = [@ EXCEPT !.pc = "rejected", !.how = "failed"]]]

\* fetchOptions after a failed request (non-2xx status or rejected fetch): the
\* catch reports it and returns [].
FetchOptionsFailed(i, h, sets, pend) ==
  [sets |-> sets,
   heap |-> Store(h, NewAddr(h), <<>>),
   pend |-> [pend EXCEPT ![i] = [@ EXCEPT !.pc = "resolved", !.ref = NewAddr(h),
                                          !.how = "failed", !.turn = NextTurn(pend)]]]

FetchResponseFail(i, failure) ==
  /\ i \in DOMAIN pending
  /\ pending[i].pc = "fetching"
  /\ failure \in Failures
  /\ LET r == FetchOptionsFailed(i, arrays, optionSets, pending)
     IN Commit(r.heap, r.sets, interactiveOptions, r.pend)
  /\ UNCHANGED <<rendered, apiUrl, appliedStale>>
  /\ Report(ErrorFetchOptions)

\* A continuation that cancels the calls dispatched before its own.
AfterResumeCancelling(pend, i) ==
  [j \in 1..(Len(pend) - i) |->
     [pend[i + j] EXCEPT !.turn = IF pend[i + j].pc = "resolved"
                                  THEN Cardinality({k \in (i + 1)..Len(pend) :
                                                      /\ pend[k].pc = "resolved"
                                                      /\ pend[k].turn <= pend[i + j].turn})
                                  ELSE 0]]

\* pend once call i has run: it leaves, the calls queued behind it move up and
\* the calls dispatched before it are marked overtaken.
AfterResume(pend, i) ==
  RemoveAt([j \in DOMAIN pend |->
              [pend[j] EXCEPT !.turn = IF @ > pend[i].turn THEN @ - 1 ELSE @,
                              !.overtaken = @ \/ j < i]], i)

\* A continuation that keeps the previous list when the result is empty.
ResumedUnlessEmpty(call) == IF arrays[call.ref] = <<>> THEN interactiveOptions ELSE call.ref

\* The array the continuation of changeInteractiveOptions assigns to
\* interactiveOptions: the value fetchOptions returned.
Resumed(call) == call.ref

\* The continuation of changeInteractiveOptions: the value fetchOptions returned
\* becomes the active list and the buttons are rebuilt from it.
ResumeChangeOptions(i) ==
  /\ i \in DOMAIN pending
  /\ pending[i].pc = "resolved"
  /\ pending[i].turn = 1
  /\ Commit(arrays, optionSets, Resumed(pending[i]), AfterResume(pending, i))
  /\ rendered' = arrays[Resumed(pending[i])]
  /\ appliedStale' = pending[i].overtaken
  /\ UNCHANGED apiUrl
  /\ Quiet

\* An addInteractiveOption that unshifts instead of pushing.
Unshifted(h, active, option) == [h EXCEPT ![active] = <<option>> \o @]

\* addInteractiveOption pushes onto the active array in place.
Pushed(h, active, option) == [h EXCEPT ![active] = Append(@, option)]

AddInteractiveOptionEffect(option) ==
  /\ Copies(arrays[interactiveOptions], option) < MaxCopies
  /\ Commit(Pushed(arrays, interactiveOptions, option), optionSets, interactiveOptions, pending)
  /\ rendered' = Append(arrays[interactiveOptions], option)
  /\ UNCHANGED <<apiUrl, appliedStale>>
  /\ Quiet

\* removeInteractiveOption assigns a filtered copy.
RemoveInteractiveOptionEffect(optionId) ==
  /\ Commit(Store(arrays, NewAddr(arrays), WithoutId(arrays[interactiveOptions], optionId)),
            optionSets, NewAddr(arrays), pending)
  /\ rendered' = WithoutId(arrays[interactiveOptions], optionId)
  /\ UNCHANGED <<apiUrl, appliedStale>>
  /\ Quiet

\* An addOptionSet that leaves an entry alone which the id already has.
AddOptionSetIfAbsent(id, options) ==
  /\ IF id \in DOMAIN optionSets
     THEN Commit(arrays, optionSets, interactiveOptions, pending)
     ELSE Commit(Store(arrays, NewAddr(arrays), options),
                 MapSet(optionSets, id, NewAddr(arrays)), interactiveOptions, pending)
  /\ UNCHANGED <<rendered, apiUrl, appliedStale>>
  /\ Quiet

AddOptionSetEffect(id, options) ==
  /\ Commit(Store(arrays, NewAddr(arrays), options),
            MapSet(optionSets, id, NewAddr(arrays)), interactiveOptions, pending)
  /\ UNCHANGED <<rendered, apiUrl, appliedStale>>
  /\ Quiet

RemoveOptionSetEffect(id) ==
  /\ Commit(arrays, MapDelete(optionSets, id), interactiveOptions, pending)
  /\ UNCHANGED <<rendered, apiUrl, appliedStale>>
  /\ Quiet

SetApiUrlEffect(url) ==
  /\ apiUrl' = url
  /\ UNCHANGED <<arrays, optionSets, interactiveOptions, rendered, pending, appliedStale>>
  /\ Quiet

\* The constructor: interactiveOptions is the configuration's array, optionSets
\* is seeded from predefinedOptionSets, apiUrl is options.apiUrl || null.
InitOptions ==
  /\ \E sets \in ConfigOptionSets :
       IF sets = <<>>
       THEN /\ arrays = <<ConfigOptions>>
            /\ optionSets = << >>
            /\ interactiveOptions = 1
       ELSE /\ arrays = <<sets[2], ConfigOptions>>
            /\ optionSets = (sets[1] :> 1)
            /\ interactiveOptions = 2
  /\ rendered = ConfigOptions
  /\ \E url \in ConfigApiUrls : apiUrl = IF Truthy(url) THEN url ELSE Null
  /\ pending = <<>>
  /\ appliedStale = FALSE

\* --------------------------------------------------------- media element
\* The media element as the widget uses it: the bound source ("" for none),
\* paused, the playback position, and the events it has queued for the widget's
\* listeners.

\* Videos of the configuration, and the videos the host passes to addVideo.
videoA == [id |-> "a", url |-> "https://cdn.example/a.mp4", title |-> "A"]
videoB == [id |-> "b", url |-> "https://cdn.example/b.mp4", title |-> "B"]
videoC == [id |-> "c", url |-> "https://cdn.example/c.mp4", title |-> "C"]
videoBlobB == [id |-> "b", url |-> "blob:b", title |-> "B again"]
ConfigVideoLists == {<<>>, <<videoA, videoB>>}
HostVideos == {videoC, videoBlobB}
\* Where the sources are what is studied, the host also adds a configured
\* video anew, as a new object with the reference url.
LoadHostVideos == HostVideos \cup {videoB}
VideoIds == {"a", "b", "c"}
\* Observers the host registers through onVideoTimeUpdate.
Callbacks == {"observer1", "observer2"}
\* The one of them the host registers where observers are not what is studied.
PlaybackCallbacks == {"observer1"}

\* url.startsWith('blob:')
IsBlobUrl(url) == url \in {"blob:a", "blob:b", "blob:c"}

\* URL.createObjectURL(blob) of the fetched source of a video.
ObjectUrl(video) ==
  CASE video.id = "a" -> "blob:a"
    [] video.id = "b" -> "blob:b"
    [] OTHER -> "blob:c"

\* videoElement.src = url: the element loads the new source from the start,
\* paused, and drops the events it had queued.
MediaBind(m, url) ==
  [src |-> url, paused |-> TRUE, currentTime |-> 0, playQueued |-> FALSE,
   metadataQueued |-> url # ""]

\* An element on which a rejected play() is tried again and then goes through.
MediaPlayRetrying(m, allowed) ==
  IF m.src = "" THEN m
  ELSE [m EXCEPT !.paused = FALSE, !.playQueued = @ \/ m.paused]

\* videoElement.play(): with a bound source the runtime starts playback
\* (allowed) or rejects the request; with none the request is rejected.
MediaPlay(m, allowed) ==
  IF m.src = "" \/ ~allowed THEN m
  ELSE [m EXCEPT !.paused = FALSE, !.playQueued = @ \/ m.paused]

\* videoElement.pause()
MediaPause(m) == [m EXCEPT !.paused = TRUE]

\* stopAllAudio: pause, rewind, release the source and reset the element.
StopAllAudio(m) == MediaBind([MediaPause(m) EXCEPT !.currentTime = 0], "")

\* The media element is playing a source.
Playing == ~videoElement.paused /\ videoElement.src # ""

\* --------------------------------------------------------------- playback
\* A find that falls back on the first video when no id matches.
FindOrFirst(vids, videoId) ==
  IF \E k \in DOMAIN vids : vids[k].id = videoId
  THEN CHOOSE k \in DOMAIN vids : vids[k].id = videoId /\ \A j \in 1..(k - 1) : vids[j].id # videoId
  ELSE IF vids = <<>> THEN 0 ELSE 1

\* videos.find(v => v.id === videoId): the index of the first match, 0 for none.
Find(vids, videoId) ==
  IF \E k \in DOMAIN vids : vids[k].id = videoId
  THEN CHOOSE k \in DOMAIN vids : vids[k].id = videoId /\ \A j \in 1..(k - 1) : vids[j].id # videoId
  ELSE 0

\* A playVideo that requests playback whatever the widget's display is.
MayPlayAlways(widget, container) == TRUE

\* May playVideo request playback?  The later revision asks for a displayed
\* widget, the entry point for nothing.
MayPlay(widget, container) == revision = "entry" \/ widget # "none"

\* A handler that leaves the media element and currentVideoId alone.
NoPlay(m, cur) == [media |-> m, cur |-> cur, report |-> Silent]

\* A playVideo that records the id before it has looked for the video.
PlayVideoUnchecked(videoId, vids, m, cur, widget, container, allowed) ==
  IF Find(vids, videoId) = 0 THEN NoPlay(m, videoId)
  ELSE [media |-> MediaPlay(MediaBind(m, vids[Find(vids, videoId)].url), allowed),
        cur |-> videoId,
        report |-> IF allowed THEN Silent ELSE ErrorPlaying]

\* playVideo(videoId) on video list vids, media element m and current id cur:
\* the media element and currentVideoId it leaves, and what the catch of a
\* rejected play() writes to the console.
PlayVideo(videoId, vids, m, cur, widget, container, allowed) ==
  IF Find(vids, videoId) = 0 THEN NoPlay(m, cur)
  ELSE IF MayPlay(widget, container)
  THEN [media |-> MediaPlay(MediaBind(m, vids[Find(vids, videoId)].url), allowed),
        cur |-> videoId,
        report |-> IF allowed THEN Silent ELSE ErrorPlaying]
  ELSE [media |-> MediaBind(m, vids[Find(vids, videoId)].url),
        cur |-> videoId,
        report |-> Silent]

\* videos.filter(v => v.id !== videoId)
RECURSIVE WithoutVideo(_, _)
WithoutVideo(vids, videoId) ==
  IF vids = <<>> THEN <<>>
  ELSE IF Head(vids).id # videoId THEN <<Head(vids)>> \o WithoutVideo(Tail(vids), videoId)
  ELSE WithoutVideo(Tail(vids), videoId)

\* A handleOptionClick that passes the option's id to playVideo, where the
\* code passes its payload.
ClickPlayVideoById(k, allowed) ==
  /\ k \in DOMAIN rendered
  /\ rendered[k].action = "playVideo"
  /\ LET r == PlayVideo(rendered[k].id, videos, videoElement, currentVideoId,
                        widgetDisplay, containerDisplay, allowed)
     IN /\ videoElement' = r.media
        /\ currentVideoId' = r.cur
        /\ Report(r.report)
  /\ UNCHANGED <<videos, adding, videoTimeUpdateCallback, optVars, gateVars>>

\* handleOptionClick, case 'playVideo'
ClickPlayVideo(k, allowed) ==
  /\ k \in DOMAIN rendered
  /\ rendered[k].action = "playVideo"
  /\ LET r == PlayVideo(rendered[k].payload, videos, videoElement, currentVideoId,
                        widgetDisplay, containerDisplay, allowed)
     IN /\ videoElement' = r.media
        /\ currentVideoId' = r.cur
        /\ Report(r.report)
  /\ UNCHANGED <<videos, adding, videoTimeUpdateCallback, optVars, gateVars>>

\* handleOptionClick, case 'openUrl': window.open leaves the widget as it is.
ClickOpenUrl(k) ==
  /\ k \in DOMAIN rendered
  /\ rendered[k].action = "openUrl"
  /\ Quiet
  /\ UNCHANGED <<optVars, playVars, gateVars>>

\* What hide() does to the media element: stopAllAudio in the later revision,
\* nothing in the entry point.
HideStop(m) == IF revision = "later" THEN StopAllAudio(m) ELSE m

\* A hide that also takes the expanded widget off the display.
HideEffectCollapsing ==
  /\ containerDisplay' = "none"
  /\ widgetDisplay' = "none"
  /\ videoElement' = HideStop(videoElement)
  /\ UNCHANGED <<isMinimized, minimizedDisplay, sessionClosed>>
  /\ UNCHANGED <<videos, currentVideoId, adding, videoTimeUpdateCallback, optVars>>

\* hide(), but for the console
HideEffect ==
  /\ containerDisplay' = "none"
  /\ videoElement' = HideStop(videoElement)
  /\ UNCHANGED <<isMinimized, widgetDisplay, minimizedDisplay, sessionClosed>>
  /\ UNCHANGED <<videos, currentVideoId, adding, videoTimeUpdateCallback, optVars>>

\* hide()
Hide == HideEffect /\ Quiet

\* A startIntercomChat that hides the widget only once it has found the chat.
ClickStartChatIfAvailable(k, intercom) ==
  /\ k \in DOMAIN rendered
  /\ rendered[k].action = "startChat"
  /\ IF intercom THEN HideEffect ELSE UNCHANGED <<optVars, playVars, gateVars>>
  /\ Report(IF intercom THEN Silent ELSE ErrorIntercom)

\* handleOptionClick, case 'startChat': startIntercomChat hides the widget, then
\* opens the chat when window.Intercom exists and reports its absence otherwise.
ClickStartChat(k, intercom) ==
  /\ k \in DOMAIN rendered
  /\ rendered[k].action = "startChat"
  /\ HideEffect
  /\ Report(IF intercom THEN Silent ELSE ErrorIntercom)

\* handleOptionClick, case 'changeOptions'
ClickChangeOptions(k) ==
  /\ k \in DOMAIN rendered
  /\ rendered[k].action = "changeOptions"
  /\ ChangeOptionsEffect(rendered[k].payload)
  /\ UNCHANGED <<playVars, gateVars>>

\* togglePlayPause
TogglePlayPause(allowed) ==
  /\ videoElement' = IF videoElement.paused THEN MediaPlay(videoElement, allowed)
                     ELSE MediaPause(videoElement)
  /\ Report(IF videoElement.paused /\ (videoElement.src = "" \/ ~allowed)
            THEN ErrorPlaying ELSE Silent)
  /\ UNCHANGED <<videos, currentVideoId, adding, videoTimeUpdateCallback, optVars, gateVars>>

\* replayVideo
ReplayVideo(allowed) ==
  /\ LET r == IF currentVideoId # Null
              THEN PlayVideo(currentVideoId, videos, videoElement, currentVideoId,
                             widgetDisplay, containerDisplay, allowed)
              ELSE NoPlay(videoElement, currentVideoId)
     IN /\ videoElement' = r.media
        /\ currentVideoId' = r.cur
        /\ Report(r.report)
  /\ UNCHANGED <<videos, adding, videoTimeUpdateCallback, optVars, gateVars>>

\* An onVideoTimeUpdate that keeps the observer registered first.
OnVideoTimeUpdateOnce(callback) ==
  /\ revision = "later"
  /\ videoTimeUpdateCallback' = IF videoTimeUpdateCallback = Null THEN callback
                                ELSE videoTimeUpdateCallback
  /\ Quiet
  /\ UNCHANGED <<videos, currentVideoId, adding, videoElement, optVars, gateVars>>

\* onVideoTimeUpdate(callback), a method of the later revision
OnVideoTimeUpdate(callback) ==
  /\ revision = "later"
  /\ videoTimeUpdateCallback' = callback
  /\ Quiet
  /\ UNCHANGED <<videos, currentVideoId, adding, videoElement, optVars, gateVars>>

\* What toggleWidget does to the media element on the way to minimized:
\* stopAllAudio in the later revision, pause() in the entry point.
MinimizeStop(m) == IF revision = "later" THEN StopAllAudio(m) ELSE MediaPause(m)

\* A toggleWidget that calls playVideo before it displays the widget.
ToggleWidgetPlayFirst(allowed) ==
  /\ IF isMinimized
     THEN /\ minimizedDisplay' = "none"
          /\ widgetDisplay' = "block"
          /\ LET r == IF currentVideoId # Null
                      THEN PlayVideo(currentVideoId, videos, videoElement, currentVideoId,
                                     widgetDisplay, containerDisplay, allowed)
                      ELSE NoPlay(videoElement, currentVideoId)
             IN /\ videoElement' = r.media
                /\ currentVideoId' = r.cur
                /\ Report(r.report)
     ELSE /\ minimizedDisplay' = "block"
          /\ widgetDisplay' = "none"
          /\ videoElement' = MinimizeStop(videoElement)
          /\ Quiet
          /\ UNCHANGED currentVideoId
  /\ isMinimized' = ~isMinimized
  /\ UNCHANGED <<containerDisplay, sessionClosed>>
  /\ UNCHANGED <<videos, adding, videoTimeUpdateCallback, optVars>>

\* toggleWidget
ToggleWidget(allowed) ==
  /\ IF isMinimized
     THEN /\ minimizedDisplay' = "none"
          /\ widgetDisplay' = "block"
          /\ LET r == IF currentVideoId # Null
                      THEN PlayVideo(currentVideoId, videos, videoElement, currentVideoId,
                                     "block", containerDisplay, allowed)
                      ELSE NoPlay(videoElement, currentVideoId)
             IN /\ videoElement' = r.media
                /\ currentVideoId' = r.cur
                /\ Report(r.report)
     ELSE /\ minimizedDisplay' = "block"
          /\ widgetDisplay' = "none"
          /\ videoElement' = MinimizeStop(videoElement)
          /\ Quiet
          /\ UNCHANGED currentVideoId
  /\ isMinimized' = ~isMinimized
  /\ UNCHANGED <<containerDisplay, sessionClosed>>
  /\ UNCHANGED <<videos, adding, videoTimeUpdateCallback, optVars>>

\* A closeWidget that leaves the observer registered.
CloseWidgetKeepingObserver ==
  /\ containerDisplay' = "none"
  /\ videoElement' = IF revision = "later" THEN StopAllAudio(HideStop(videoElement))
                     ELSE HideStop(videoElement)
  /\ sessionClosed' = TRUE
  /\ Quiet
  /\ UNCHANGED <<isMinimized, widgetDisplay, minimizedDisplay>>
  /\ UNCHANGED <<videos, currentVideoId, adding, videoTimeUpdateCallback, optVars>>

\* closeWidget: hide and setClosedForSession; the later revision also calls
\* stopAllAudio and clears the observer.
CloseWidget ==
  /\ containerDisplay' = "none"
  /\ videoElement' = IF revision = "later" THEN StopAllAudio(HideStop(videoElement))
                     ELSE HideStop(videoElement)
  /\ sessionClosed' = TRUE
  /\ videoTimeUpdateCallback' = IF revision = "later" THEN Null ELSE videoTimeUpdateCallback
  /\ Quiet
  /\ UNCHANGED <<isMinimized, widgetDisplay, minimizedDisplay>>
  /\ UNCHANGED <<videos, currentVideoId, adding, optVars>>

\* A show() that does not look at the session's flag.
ShowUngated ==
  /\ containerDisplay' = "block"
  /\ Quiet
  /\ UNCHANGED <<isMinimized, widgetDisplay, minimizedDisplay, sessionClosed>>
  /\ UNCHANGED <<playVars, optVars>>

\* show()
Show ==
  /\ containerDisplay' = IF ~sessionClosed THEN "block" ELSE containerDisplay
  /\ Quiet
  /\ UNCHANGED <<isMinimized, widgetDisplay, minimizedDisplay, sessionClosed>>
  /\ UNCHANGED <<playVars, optVars>>

\* A resetClosedState() that shows the widget as well.
ResetClosedStateShowing ==
  /\ sessionClosed' = FALSE
  /\ containerDisplay' = "block"
  /\ Quiet
  /\ UNCHANGED <<isMinimized, widgetDisplay, minimizedDisplay>>
  /\ UNCHANGED <<playVars, optVars>>

\* resetClosedState()
ResetClosedState ==
  /\ sessionClosed' = FALSE
  /\ Quiet
  /\ UNCHANGED <<isMinimized, containerDisplay, widgetDisplay, minimizedDisplay>>
  /\ UNCHANGED <<playVars, optVars>>

\* addVideo(video): a video with a blob: URL joins the list at once; for any
\* other URL the source is fetched first.
AddVideo(video) ==
  /\ Len(videos) + Cardinality(adding) < MaxVideos
  /\ video \notin adding
  /\ IF IsBlobUrl(video.url)
     THEN /\ videos' = Append(videos, video)
          /\ UNCHANGED adding
     ELSE /\ adding' = adding \cup {video}
          /\ UNCHANGED videos
  /\ Quiet
  /\ UNCHANGED <<currentVideoId, videoElement, videoTimeUpdateCallback, optVars, gateVars>>

\* addVideo, the fetch has succeeded: the video joins the list with an object URL.
AddVideoLoaded(video) ==
  /\ video \in adding
  /\ adding' = adding \ {video}
  /\ videos' = Append(videos, [video EXCEPT !.url = ObjectUrl(video)])
  /\ Quiet
  /\ UNCHANGED <<currentVideoId, videoElement, videoTimeUpdateCallback, optVars, gateVars>>

\* addVideo, the fetch has failed: the failure is reported.
AddVideoFailed(video) ==
  /\ video \in adding
  /\ adding' = adding \ {video}
  /\ Report(ErrorLoadVideo)
  /\ UNCHANGED <<videos, currentVideoId, videoElement, videoTimeUpdateCallback, optVars, gateVars>>

\* loadVideos walks the list: a video whose url is a blob: URL is passed over,
\* the next other one is fetched.  (A video addVideo pushes while the loop runs
\* has a blob: URL by then, so the loop passes it over as well.)
RECURSIVE NextToLoad(_)
NextToLoad(q) ==
  IF q = <<>> THEN <<>>
  ELSE IF IsBlobUrl(q[1].url) THEN NextToLoad(Tail(q))
  ELSE q

\* The video object a materialized source is written to is the configured
\* one, wherever the list still holds it.
Materialized(vids, video) ==
  [k \in DOMAIN vids |->
     IF vids[k] = video THEN [video EXCEPT !.url = ObjectUrl(video)] ELSE vids[k]]

\* loadVideos, the fetch of the awaited video has succeeded: its url becomes an
\* object URL and the loop goes on.
LoadVideoOk ==
  /\ loadQueue # <<>>
  /\ videos' = Materialized(videos, loadQueue[1])
  /\ loadQueue' = NextToLoad(Tail(loadQueue))
  /\ LoadReport(Silent)
  /\ UNCHANGED <<currentVideoId, adding, videoElement, videoTimeUpdateCallback, optVars, gateVars>>

\* loadVideos, the fetch of the awaited video has failed: the failure is
\* reported, the video keeps its url and the loop goes on.
LoadVideoFail ==
  /\ loadQueue # <<>>
  /\ loadQueue' = NextToLoad(Tail(loadQueue))
  /\ LoadReport(ErrorLoadVideo)
  /\ UNCHANGED <<videos, currentVideoId, adding, videoElement, videoTimeUpdateCallback, optVars, gateVars>>

\* A removeVideo that clears currentVideoId and does not go on to the first
\* video left.
RemoveVideoClearing(videoId, allowed) ==
  /\ videos' = WithoutVideo(videos, videoId)
  /\ currentVideoId' = IF currentVideoId = videoId THEN Null ELSE currentVideoId
  /\ Quiet
  /\ UNCHANGED <<videoElement, adding, videoTimeUpdateCallback, optVars, gateVars>>

\* A removeVideo that also gives up the addVideo calls still fetching a video
\* of that id.
RemoveVideoCancelling(videoId, allowed) ==
  /\ videos' = WithoutVideo(videos, videoId)
  /\ adding' = {v \in adding : v.id # videoId}
  /\ LET r == IF currentVideoId = videoId
              THEN IF Len(videos') > 0
                   THEN PlayVideo(videos'[1].id, videos', videoElement, Null,
                                  widgetDisplay, containerDisplay, allowed)
                   ELSE NoPlay(videoElement, Null)
              ELSE NoPlay(videoElement, currentVideoId)
     IN /\ videoElement' = r.media
        /\ currentVideoId' = r.cur
        /\ Report(r.report)
  /\ UNCHANGED <<videoTimeUpdateCallback, optVars, gateVars>>

\* removeVideo(videoId)
RemoveVideo(videoId, allowed) ==
  /\ videos' = WithoutVideo(videos, videoId)
  /\ LET r == IF currentVideoId = videoId
              THEN IF Len(videos') > 0
                   THEN PlayVideo(videos'[1].id, videos', videoElement, Null,
                                  widgetDisplay, containerDisplay, allowed)
                   ELSE NoPlay(videoElement, Null)
              ELSE NoPlay(videoElement, currentVideoId)
     IN /\ videoElement' = r.media
        /\ currentVideoId' = r.cur
        /\ Report(r.report)
  /\ UNCHANGED <<adding, videoTimeUpdateCallback, optVars, gateVars>>

\* The duration the element reports of a bound source.
Duration(m) == MaxTime

\* The 'timeupdate' listener's call of the observer: none when no observer is
\* registered, else one call of it with the element's current time, its
\* duration and currentVideoId || ''.
Notify(callback, m, cur) ==
  IF callback = Null THEN NoCall
  ELSE [callback |-> callback, currentTime |-> m.currentTime,
        duration |-> Duration(m), videoId |-> IF cur = Null THEN "" ELSE cur]

\* Playback advances and the element fires 'timeupdate': the progress bar is
\* redrawn and the observer, if any, is called.
TimeUpdate ==
  /\ Playing
  /\ videoElement.currentTime < MaxTime
  /\ videoElement' = [videoElement EXCEPT !.currentTime = @ + 1]
  /\ observed' = Notify(videoTimeUpdateCallback, videoElement', currentVideoId)
  /\ reported' = Silent
  /\ UNCHANGED <<revision, loadQueue>>
  /\ UNCHANGED <<videos, currentVideoId, adding, videoTimeUpdateCallback, optVars, gateVars>>

\* Does a media listener of the widget stop the audio?  Those of the later
\* revision do when the widget is not displayed; the entry point has none.
ListenerStops == revision = "later" /\ widgetDisplay = "none"

\* The 'loadedmetadata' listener
LoadedMetadata ==
  /\ videoElement.metadataQueued
  /\ videoElement' = IF ListenerStops THEN StopAllAudio(videoElement)
                     ELSE [videoElement EXCEPT !.metadataQueued = FALSE]
  /\ Quiet
  /\ UNCHANGED <<videos, currentVideoId, adding, videoTimeUpdateCallback, optVars, gateVars>>

\* The 'play' listeners
PlayEvent ==
  /\ videoElement.playQueued
  /\ videoElement' = IF ListenerStops THEN StopAllAudio(videoElement)
                     ELSE [videoElement EXCEPT !.playQueued = FALSE]
  /\ Quiet
  /\ UNCHANGED <<videos, currentVideoId, adding, videoTimeUpdateCallback, optVars, gateVars>>

\* The constructor: the widget starts minimized inside a container left at its
\* default display, createVideo plays the first video (in the later revision
\* the widget is not displayed, so the source is bound and no playback is
\* requested), and the session may already hold the closed flag of an earlier
\* instance.
InitPlayback ==
  /\ revision \in Revisions
  /\ videos \in ConfigVideoLists
  /\ adding = {}
  /\ \E allowed \in BOOLEAN :
       LET r == IF Len(videos) > 0
                THEN PlayVideo(videos[1].id, videos, MediaBind(<<>>, ""), Null, "none", "", allowed)
                ELSE NoPlay(MediaBind(<<>>, ""), Null)
       IN /\ videoElement = r.media
          /\ currentVideoId = r.cur
          /\ reported = r.report
  /\ observed = NoCall
  /\ loadQueue = NextToLoad(videos)
  /\ videoTimeUpdateCallback = Null
  /\ isMinimized = TRUE
  /\ containerDisplay = ""
  /\ widgetDisplay = "none"
  /\ minimizedDisplay = ""
  /\ sessionClosed \in BOOLEAN

\* --------------------------------------------------------- specifications
ChangeInteractiveOptions(optionsId) == ChangeOptionsEffect(optionsId) /\ UNCHANGED <<playVars, gateVars>>
AddInteractiveOption(option) == AddInteractiveOptionEffect(option) /\ UNCHANGED <<playVars, gateVars>>
RemoveInteractiveOption(optionId) == RemoveInteractiveOptionEffect(optionId) /\ UNCHANGED <<playVars, gateVars>>
AddOptionSet(id, options) == AddOptionSetEffect(id, options) /\ UNCHANGED <<playVars, gateVars>>
RemoveOptionSet(id) == RemoveOptionSetEffect(id) /\ UNCHANGED <<playVars, gateVars>>
SetApiUrl(url) == SetApiUrlEffect(url) /\ UNCHANGED <<playVars, gateVars>>
FetchOk(i, list) == FetchResponseOk(i, list) /\ UNCHANGED <<playVars, gateVars>>
FetchFail(i, failure) == FetchResponseFail(i, failure) /\ UNCHANGED <<playVars, gateVars>>
Resume(i) == ResumeChangeOptions(i) /\ UNCHANGED <<playVars, gateVars>>

Init == InitOptions /\ InitPlayback

\* The steps that read and write the option-set store and the active list,
\* and the PlayVideo dispatch of the options of that list.
OptionNext ==
  \/ \E id \in SetIds : ChangeInteractiveOptions(id)
  \/ \E k \in 1..(Len(ConfigOptions) + MaxCopies) : ClickChangeOptions(k)
  \/ \E k \in 1..(Len(ConfigOptions) + MaxCopies), allowed \in BOOLEAN : ClickPlayVideo(k, allowed)
  \/ \E i \in 1..MaxInFlight, list \in RemoteLists : FetchOk(i, list)
  \/ \E i \in 1..MaxInFlight, f \in Failures : FetchFail(i, f)
  \/ \E i \in 1..MaxInFlight : Resume(i)
  \/ \E o \in HostOptions : AddInteractiveOption(o)
  \/ \E id \in HostOptionIds : RemoveInteractiveOption(id)
  \/ \E id \in SetIds, options \in HostLists : AddOptionSet(id, options)
  \/ \E id \in SetIds : RemoveOptionSet(id)
  \/ \E url \in ApiUrls : SetApiUrl(url)

\* The steps that read and write the playback state and the visibility gate.
PlaybackNext ==
  \/ \E k \in 1..(Len(ConfigOptions) + MaxCopies), allowed \in BOOLEAN : ClickPlayVideo(k, allowed)
  \/ \E k \in 1..(Len(ConfigOptions) + MaxCopies) : ClickOpenUrl(k)
  \/ \E k \in 1..(Len(ConfigOptions) + MaxCopies), intercom \in BOOLEAN : ClickStartChat(k, intercom)
  \/ \E allowed \in BOOLEAN : TogglePlayPause(allowed)
  \/ \E allowed \in BOOLEAN : ReplayVideo(allowed)
  \/ \E callback \in PlaybackCallbacks : OnVideoTimeUpdate(callback)
  \/ \E allowed \in BOOLEAN : ToggleWidget(allowed)
  \/ CloseWidget
  \/ Show
  \/ Hide
  \/ ResetClosedState
  \/ \E video \in HostVideos : AddVideo(video)
  \/ \E video \in HostVideos : AddVideoLoaded(video)
  \/ \E video \in HostVideos : AddVideoFailed(video)
  \/ \E videoId \in VideoIds, allowed \in BOOLEAN : RemoveVideo(videoId, allowed)
  \/ TimeUpdate
  \/ LoadedMetadata
  \/ PlayEvent

Next == OptionNext \/ PlaybackNext

\* The whole widget.
Spec == Init /\ [][Next]_vars

\* The option-set store alone.  No step of PlaybackNext writes a variable of
\* optVars and no step of OptionNext reads one of playVars or gateVars, so what
\* holds of optVars here holds of them under Spec (a PlayVideo dispatch is a
\* step of both and writes none of optVars); for the same reason one
\* configuration of the videos and of the session stands for all, and so does
\* one revision, the two having the same option-set code.
OptionInit == Init /\ videos = <<>> /\ ~sessionClosed /\ revision = "later"
OptionSpec == OptionInit /\ [][OptionNext]_vars

\* Playback and visibility alone, the buttons being those of the configuration
\* (one option of every action that OptionNext does not handle); no step of
\* PlaybackNext reads the option-set mapping or the endpoint, so one
\* configuration of them stands for all.
PlaybackInit == Init /\ optionSets = << >> /\ apiUrl = Null
PlaybackSpec == PlaybackInit /\ [][PlaybackNext]_vars

\* Dispatch end to end: option sets are resolved and their options dispatched
\* in a widget configured with the videos a and b and the predefined set
\* "menu".
DispatchNext ==
  \/ \E id \in SetIds : ChangeInteractiveOptions(id)
  \/ \E k \in 1..(Len(ConfigOptions) + MaxCopies), allowed \in BOOLEAN : ClickPlayVideo(k, allowed)
  \/ \E i \in 1..MaxInFlight : Resume(i)
  \/ \E id \in SetIds : RemoveOptionSet(id)
  \/ \E allowed \in BOOLEAN : ToggleWidget(allowed)
  \/ \E videoId \in VideoIds, allowed \in BOOLEAN : RemoveVideo(videoId, allowed)
  \/ LoadedMetadata
  \/ PlayEvent

DispatchInit ==
  /\ Init
  /\ videos = <<videoA, videoB>>
  /\ "menu" \in DOMAIN optionSets
  /\ apiUrl = Null
  /\ ~sessionClosed
DispatchSpec == DispatchInit /\ [][DispatchNext]_vars

\* Progress of the option part: every request is answered in the end, with a
\* 2xx or with a failure (the premise liveness is claimed under), and the
\* continuation of a call whose fetchOptions has returned is a queued
\* microtask, which the runtime runs.
Respond ==
  \E i \in 1..MaxInFlight :
     \/ \E list \in RemoteLists : FetchOk(i, list)
     \/ \E f \in Failures : FetchFail(i, f)
Continue == \E i \in 1..MaxInFlight : Resume(i)
Dispatch == \E id \in SetIds : ChangeInteractiveOptions(id)

\* The steps of the option part that resolve option sets, with an endpoint
\* configured and no predefined set: dispatches, answers and continuations.
LiveNext ==
  \/ Dispatch
  \/ Respond
  \/ Continue

LiveInit == OptionInit /\ optionSets = << >> /\ apiUrl # Null
LiveSpec == LiveInit /\ [][LiveNext]_vars /\ WF_vars(Respond) /\ WF_vars(Continue)

\* The demo page: no option set and no endpoint is configured, the page
\* registers one set whose "Back" option asks for 'default', its buttons lead
\* to that set and back, and its time-update observer asks for the set and
\* for 'default' as playback goes on.
DemoLists == {<<optPlayB, optBack>>}
DemoIds == SetIds \cup {optBack.payload}

DemoNext ==
  \/ \E id \in SetIds, options \in DemoLists : AddOptionSet(id, options)
  \/ \E o \in HostOptions : AddInteractiveOption(o)
  \/ \E k \in 1..(Len(ConfigOptions) + MaxCopies) : ClickChangeOptions(k)
  \/ \E id \in DemoIds : ChangeInteractiveOptions(id)
  \/ \E i \in 1..MaxInFlight : Resume(i)

DemoInit == OptionInit /\ optionSets = << >> /\ apiUrl = Null
DemoSpec == DemoInit /\ [][DemoNext]_vars

\* The time-update observer: the host registers observers while the widget is
\* opened, played, minimized and closed.
ObserverNext ==
  \/ \E callback \in Callbacks : OnVideoTimeUpdate(callback)
  \/ TimeUpdate
  \/ \E k \in 1..(Len(ConfigOptions) + MaxCopies), allowed \in BOOLEAN : ClickPlayVideo(k, allowed)
  \/ \E allowed \in BOOLEAN : TogglePlayPause(allowed)
  \/ \E allowed \in BOOLEAN : ToggleWidget(allowed)
  \/ \E videoId \in VideoIds, allowed \in BOOLEAN : RemoveVideo(videoId, allowed)
  \/ CloseWidget
  \/ ResetClosedState
  \/ Show
  \/ LoadedMetadata
  \/ PlayEvent

ObserverInit == PlaybackInit /\ ~sessionClosed
ObserverSpec == ObserverInit /\ [][ObserverNext]_vars

\* Materializing the sources: loadVideos walks the configured list while the
\* host adds and removes videos and the widget plays them.
LoadNext ==
  \/ LoadVideoOk
  \/ LoadVideoFail
  \/ \E video \in LoadHostVideos : AddVideo(video)
  \/ \E video \in LoadHostVideos : AddVideoLoaded(video)
  \/ \E video \in LoadHostVideos : AddVideoFailed(video)
  \/ \E videoId \in VideoIds, allowed \in BOOLEAN : RemoveVideo(videoId, allowed)
  \/ \E k \in 1..(Len(ConfigOptions) + MaxCopies), allowed \in BOOLEAN : ClickPlayVideo(k, allowed)
  \/ \E allowed \in BOOLEAN : ReplayVideo(allowed)
  \/ \E allowed \in BOOLEAN : ToggleWidget(allowed)
  \/ LoadedMetadata
  \/ PlayEvent

LoadInit == PlaybackInit /\ ~sessionClosed
LoadSpec == LoadInit /\ [][LoadNext]_vars

\* ------------------------------------------------------------ properties
\* The content of the active option list.
Active == arrays[interactiveOptions]

\* The calls waiting for an answer of the endpoint.
InFlight(pend) == {i \in DOMAIN pend : pend[i].pc = "fetching"}

\* The call a dispatch has just added.
Last(pend) == pend[Len(pend)]

\* C1: fetchOptions(id) for an id of the option-set mapping returns the mapped
\* array and issues no request, at every call: a dispatch for such an id adds a
\* call that has resolved to the very array the mapping holds, leaves the
\* mapping and the array as they are and adds no request.
C1_MappedIdResolvesWithoutRequest ==
  [][\A id \in SetIds :
       (id \in DOMAIN optionSets /\ ChangeInteractiveOptions(id)) =>
          /\ Len(pending') = Len(pending) + 1
          /\ Last(pending').id = id
          /\ Last(pending').pc = "resolved"
          /\ Last(pending').ref = optionSets'[id]
          /\ arrays'[optionSets'[id]] = arrays[optionSets[id]]
          /\ DOMAIN optionSets' = DOMAIN optionSets
          /\ Cardinality(InFlight(pending')) = Cardinality(InFlight(pending))]_vars

\* C1, its case: with an endpoint configured, two calls for the same mapped id
\* have both resolved from the mapping.
C1_Witness ==
  /\ apiUrl = "https://api.example"
  /\ Len(pending) = 2
  /\ \A i \in DOMAIN pending : pending[i].how = "cache" /\ pending[i].ref = optionSets["menu"]

\* C2: nothing but addOptionSet and removeOptionSet changes what a set id of the
\* mapping yields; in particular addInteractiveOption leaves every mapped list
\* as it was.
C2_AddInteractiveOptionKeepsSets ==
  [][\A o \in HostOptions :
       AddInteractiveOption(o) =>
          /\ DOMAIN optionSets' = DOMAIN optionSets
          /\ \A id \in DOMAIN optionSets : arrays'[optionSets'[id]] = arrays[optionSets[id]]]_vars

\* C3: the continuation of a ChangeOptions that runs makes its own result the
\* active list, whichever call was dispatched first, and cancels no other call:
\* the others stay, each with its id and its progress.
C3_LastContinuationWins ==
  [][\A i \in 1..MaxInFlight :
       Resume(i) =>
          /\ Active' = arrays[pending[i].ref]
          /\ Len(pending') = Len(pending) - 1
          /\ \A j \in DOMAIN pending' :
               LET old == pending[IF j < i THEN j ELSE j + 1]
               IN /\ pending'[j].id = old.id
                  /\ pending'[j].pc = old.pc
                  /\ pending'[j].how = old.how]_vars

\* C3, its case: the result of a call has been applied after that of a call
\* dispatched later.
C3_Witness == appliedStale

\* C4: a 2xx answer to the request for an unmapped id makes fetchOptions return
\* the parsed list and store it under the id, so that the next call for the id
\* finds it in the mapping.
C4_RemoteResultReturnedAndStored ==
  [][\A i \in 1..MaxInFlight, list \in RemoteLists :
       FetchOk(i, list) =>
          /\ pending[i].id \in DOMAIN optionSets'
          /\ arrays'[optionSets'[pending[i].id]] = list
          /\ pending'[i].pc = "resolved"
          /\ pending'[i].ref = optionSets'[pending[i].id]
          /\ Cardinality(InFlight(pending')) = Cardinality(InFlight(pending)) - 1]_vars

\* C4, its case: a list that came from the endpoint sits in the mapping and a
\* later call for its id has resolved from the mapping.
C4_Witness ==
  /\ "menu" \in DOMAIN optionSets
  /\ arrays[optionSets["menu"]] = <<optUrl>>
  /\ \E i \in DOMAIN pending : pending[i].how = "cache" /\ pending[i].ref = optionSets["menu"]

\* C5: a failed request (status or transport) makes fetchOptions return [] and
\* store nothing, so that a later call for the id asks the endpoint again, and
\* the ChangeOptions that started it leaves the active list empty.
C5_FailureYieldsEmptyAndStoresNothing ==
  [][/\ \A i \in 1..MaxInFlight, f \in Failures :
          FetchFail(i, f) =>
             /\ pending'[i].pc = "resolved"
             /\ arrays'[pending'[i].ref] = <<>>
             /\ DOMAIN optionSets' = DOMAIN optionSets
             /\ \A id \in DOMAIN optionSets :
                  /\ arrays'[optionSets'[id]] = arrays[optionSets[id]]
                  /\ optionSets'[id] # pending'[i].ref
     /\ \A i \in 1..MaxInFlight :
          (Resume(i) /\ pending[i].how = "failed") => (Active' = <<>> /\ rendered' = <<>>)
     /\ \A id \in SetIds :
          (/\ ChangeInteractiveOptions(id)
           /\ id \notin DOMAIN optionSets
           /\ apiUrl = "https://api.example") => Last(pending').pc = "fetching"]_vars

\* C5, its case: a request has failed, its id is still unmapped, and a second
\* request for the same id is on its way.
C5_Witness ==
  /\ "menu" \notin DOMAIN optionSets
  /\ Len(pending) = 2
  /\ pending[1].how = "failed" /\ pending[1].id = "menu"
  /\ pending[2].pc = "fetching" /\ pending[2].id = "menu"

\* C6: fetchOptions(id) for an unmapped id with no endpoint configured returns
\* [], issues no request and leaves the mapping as it is.
C6_UnmappedIdWithoutEndpoint ==
  [][\A id \in SetIds :
       (/\ ChangeInteractiveOptions(id)
        /\ id \notin DOMAIN optionSets
        /\ apiUrl = Null) =>
          /\ Len(pending') = Len(pending) + 1
          /\ Last(pending').pc = "resolved"
          /\ arrays'[Last(pending').ref] = <<>>
          /\ optionSets' = << >>
          /\ InFlight(pending') = InFlight(pending)]_vars

\* C6, its case: with no endpoint, a call for an unmapped id has resolved, to [].
C6_Witness ==
  /\ apiUrl = Null
  /\ optionSets = << >>
  /\ \E i \in DOMAIN pending : pending[i].how = "none" /\ arrays[pending[i].ref] = <<>>

\* The lists of predefined sets: those of the configuration and of addOptionSet
\* (no answer of the endpoint is one of them).
PredefinedLists == HostLists \cup {sets[2] : sets \in ConfigOptionSets \ {<<>>}}

\* C7: the mapping entry of a predefined id is never overwritten by the result
\* of a remote fetch, not even of one that was in flight when the id was
\* registered.
C7_PredefinedNeverOverwritten ==
  [][\A i \in 1..MaxInFlight, list \in RemoteLists, id \in SetIds :
       (/\ FetchOk(i, list)
        /\ id \in DOMAIN optionSets
        /\ arrays[optionSets[id]] \in PredefinedLists) =>
          arrays'[optionSets'[id]] = arrays[optionSets[id]]]_vars

\* C8 as stated: the active list changes by whole-list replacement only, at the
\* completion of a resolution; no operation changes it otherwise.
C8_OnlyWholeListReplacement ==
  [][Active' # Active => \E i \in 1..MaxInFlight : Resume(i)]_vars

\* C8 as the code has it: the active list changes only when a resolution
\* completes (it becomes the resolved list), when addInteractiveOption appends
\* its option, or when removeInteractiveOption removes the options of its id.
C8_ReplacedAppendedOrFiltered ==
  [][Active' # Active =>
       \/ \E i \in 1..MaxInFlight : Resume(i) /\ Active' = arrays[pending[i].ref]
       \/ \E o \in HostOptions : AddInteractiveOption(o) /\ Active' = Append(Active, o)
       \/ \E id \in HostOptionIds :
            /\ RemoveInteractiveOption(id)
            /\ Active' = WithoutId(Active, id)
            /\ \E k \in DOMAIN Active : Active[k].id = id]_vars

\* C8, its case: the configured list with one option appended to it.
C8_Witness == Active = Append(ConfigOptions, optMenu) /\ rendered = Active

\* C9: when the resolution of a ChangeOptions completes, the active list is the
\* very array fetchOptions returned, also when it is empty, and the shell is
\* rendered from it.
C9_ResolutionReplacesAndRenders ==
  [][\A i \in 1..MaxInFlight :
       Resume(i) =>
          /\ Active' = arrays[pending[i].ref]
          /\ rendered' = arrays[pending[i].ref]
          /\ (pending[i].how = "cache" /\ pending[i].id \in DOMAIN optionSets
              /\ optionSets[pending[i].id] = pending[i].ref) =>
                interactiveOptions' = optionSets'[pending[i].id]]_vars

\* C9, its case: an empty result has been applied and rendered.
C9_Witness == Active = <<>> /\ rendered = <<>> /\ pending = <<>>

\* The media element has no event waiting for the widget's listeners.
Settled == ~videoElement.playQueued /\ ~videoElement.metadataQueued

\* C10: while the container is hidden or the widget is minimized the media
\* element is not playing (once its listeners have run), whatever ran since.
C10_NoPlaybackWhileNotVisible ==
  (containerDisplay = "none" \/ isMinimized) /\ Settled => ~Playing

\* The ids of the videos of a list.
IdsOf(vids) == {vids[k].id : k \in DOMAIN vids}

\* C11: currentVideoId is none or the id of a video of the current list, after
\* any sequence of operations.
C11_CurrentVideoIsListed == currentVideoId = Null \/ currentVideoId \in IdsOf(videos)

\* C11, its case: the current video has been removed and the first video left
\* has taken its place.
C11_Witness == videos = <<videoB>> /\ currentVideoId = "b"

\* C12: a PlayVideo dispatch whose payload is the id of a listed video makes
\* it the current video; one whose payload matches no video leaves
\* currentVideoId, the list and the media element as they are and writes
\* nothing to the console.
C12_PlayVideoDispatch ==
  [][\A k \in 1..(Len(ConfigOptions) + MaxCopies), allowed \in BOOLEAN :
       ClickPlayVideo(k, allowed) =>
          IF rendered[k].payload \in IdsOf(videos)
          THEN currentVideoId' = rendered[k].payload /\ videos' = videos
          ELSE /\ currentVideoId' = currentVideoId
               /\ videos' = videos
               /\ videoElement' = videoElement
               /\ reported' = Silent]_vars

\* C12, its case: the video a PlayVideo option names has left the list while
\* another video is current and bound, and the last step wrote nothing.
C12_Witness ==
  /\ videos = <<videoA>>
  /\ currentVideoId = "a"
  /\ videoElement.src = videoA.url
  /\ ~videoElement.paused
  /\ reported = Silent

\* C13: removeVideo of the current video leaves currentVideoId none when the
\* list is then empty and the id of its first video otherwise.
C13_RemoveCurrentVideo ==
  [][\A videoId \in VideoIds, allowed \in BOOLEAN :
       (RemoveVideo(videoId, allowed) /\ currentVideoId = videoId) =>
          /\ videos' = WithoutVideo(videos, videoId)
          /\ currentVideoId' = IF videos' = <<>> THEN Null ELSE videos'[1].id]_vars

\* C13, its case: the current video was the first of two and has been removed:
\* the second one is current and bound.
C13_Witness ==
  /\ videos = <<videoB>>
  /\ currentVideoId = "b"
  /\ videoElement.src = videoB.url
  /\ "a" \notin IdsOf(videos)

C15_ResetThenShow ==
  [][/\ ResetClosedState =>
          /\ ~sessionClosed'
          /\ containerDisplay' = containerDisplay
          /\ isMinimized' = isMinimized
     /\ (~sessionClosed /\ ~CloseWidget) => ~sessionClosed'
     /\ (Show /\ ~sessionClosed) => containerDisplay' = "block"
     /\ Show => /\ isMinimized' = isMinimized
                /\ widgetDisplay' = widgetDisplay
                /\ minimizedDisplay' = minimizedDisplay]_vars

\* C15, its case: the flag is clear and show() has made visible a widget that
\* had been hidden while expanded.
C15_Witness ==
  /\ ~sessionClosed
  /\ containerDisplay = "block"
  /\ ~isMinimized
  /\ videoElement.src = ""
  /\ currentVideoId # Null

\* C16: while the session's closed flag is set the widget is not visible, also
\* when it was constructed with the flag already set.
C16_ClosedMeansInvisible == sessionClosed => containerDisplay = "none"

\* C17: a StartChat dispatch leaves the container hidden whether or not
\* window.Intercom exists; when it does not, the failure is written to the
\* console and nothing shows the widget again.
C17_StartChatHides ==
  [][\A k \in 1..(Len(ConfigOptions) + MaxCopies), intercom \in BOOLEAN :
       ClickStartChat(k, intercom) =>
          /\ containerDisplay' = "none"
          /\ reported' = IF intercom THEN Silent ELSE ErrorIntercom
          /\ UNCHANGED <<isMinimized, widgetDisplay, minimizedDisplay, sessionClosed>>]_vars

\* C17, its case: the chat was not available: the container is hidden and the
\* failure has been reported.
C17_Witness == containerDisplay = "none" /\ reported = ErrorIntercom

\* C18: every toggle from expanded to minimized ends with the media element
\* paused, at position zero and with its source released.
C18_MinimizeStopsAll ==
  [][\A allowed \in BOOLEAN :
       (ToggleWidget(allowed) /\ ~isMinimized) =>
          /\ isMinimized'
          /\ videoElement'.paused
          /\ videoElement'.currentTime = 0
          /\ videoElement'.src = ""]_vars

\* C19: hide() hides the container, leaves the media element paused, at
\* position zero and with its source released, and leaves the session's closed
\* flag as it is.
C19_HideStopsAll ==
  [][Hide =>
       /\ containerDisplay' = "none"
       /\ videoElement'.paused
       /\ videoElement'.currentTime = 0
       /\ videoElement'.src = ""
       /\ sessionClosed' = sessionClosed]_vars

\* C20 as stated: a PlayVideo or ChangeOptions dispatch whose payload names no
\* known video or option set changes no state of the widget, the active list
\* least of all, and writes nothing to the console.
C20_UnknownPayloadIgnored ==
  [][/\ \A k \in 1..(Len(ConfigOptions) + MaxCopies), allowed \in BOOLEAN :
          (ClickPlayVideo(k, allowed) /\ rendered[k].payload \notin IdsOf(videos)) =>
             (UNCHANGED <<optVars, playVars, gateVars>> /\ reported' = Silent)
     /\ \A id \in SetIds :
          (ChangeInteractiveOptions(id) /\ id \notin DOMAIN optionSets /\ apiUrl = Null) =>
             (Active' = Active /\ reported' = Silent)
     /\ \A i \in 1..MaxInFlight :
          (Resume(i) /\ pending[i].how = "none") => Active' = Active]_vars

\* C20 as the code has it: a PlayVideo dispatch whose payload names no video
\* changes nothing and writes nothing; a ChangeOptions dispatch whose payload
\* names no option set, with no endpoint to ask, writes a warning and its
\* resolution makes the active list and the buttons empty.
C20_UnknownVideoIgnoredUnknownSetEmpties ==
  [][/\ \A k \in 1..(Len(ConfigOptions) + MaxCopies), allowed \in BOOLEAN :
          (ClickPlayVideo(k, allowed) /\ rendered[k].payload \notin IdsOf(videos)) =>
             (UNCHANGED <<optVars, playVars, gateVars>> /\ reported' = Silent)
     /\ \A id \in SetIds :
          (ChangeInteractiveOptions(id) /\ id \notin DOMAIN optionSets /\ apiUrl = Null) =>
             /\ Active' = Active
             /\ rendered' = rendered
             /\ reported' = WarnNoOptions
             /\ Last(pending').how = "none"
     /\ \A i \in 1..MaxInFlight :
          (Resume(i) /\ pending[i].how = "none") => (Active' = <<>> /\ rendered' = <<>>)]_vars

\* C20, its case: a ChangeOptions dispatch has found neither a set nor an
\* endpoint and has just written its warning, the list it will replace still
\* being the active one.
C20_Witness ==
  /\ reported = WarnNoOptions
  /\ pending # <<>>
  /\ Last(pending).how = "none"
  /\ Active = ConfigOptions

\* C21: with no endpoint configured, the continuation of a ChangeOptions for an
\* id that is in no set leaves the active list and the buttons empty and
\* touches nothing of playback or visibility; from that empty list the widget
\* goes on as usual: addInteractiveOption appends and renders its option,
\* addOptionSet registers its list, and a ChangeOptions for a mapped id
\* resolves to the mapped array.
C21_UnknownIdEmptiesAndWidgetGoesOn ==
  [][/\ \A i \in 1..MaxInFlight :
          (Resume(i) /\ pending[i].how = "none") =>
             /\ Active' = <<>>
             /\ rendered' = <<>>
             /\ UNCHANGED <<playVars, gateVars>>
     /\ (apiUrl = Null /\ Active = <<>>) =>
          /\ \A o \in HostOptions :
               AddInteractiveOption(o) => Active' = <<o>> /\ rendered' = <<o>>
          /\ \A id \in SetIds, options \in HostLists :
               AddOptionSet(id, options) => arrays'[optionSets'[id]] = options
          /\ \A id \in SetIds :
               (ChangeInteractiveOptions(id) /\ id \in DOMAIN optionSets) =>
                  /\ Last(pending').how = "cache"
                  /\ arrays'[Last(pending').ref] = arrays[optionSets[id]]]_vars

\* C21, its case: no endpoint was ever configured, the list an unknown id had
\* emptied holds the option added since, and a ChangeOptions for a set
\* registered since has resolved from the mapping.
C21_Witness ==
  /\ apiUrl = Null
  /\ Active = <<optMenu>>
  /\ rendered = <<optMenu>>
  /\ \E i \in DOMAIN pending : pending[i].how = "cache" /\ arrays[pending[i].ref] = <<optChat>>

\* C24: requests are not de-duplicated.  A dispatch for an unmapped id with an
\* endpoint configured issues a request even while one for the same id is in
\* flight, and a 2xx answer writes the entry of its id even when an
\* overlapping request has written it already and answers no other request:
\* the entry holds the answer processed last.
C24_NoInFlightDeduplication ==
  [][/\ \A id \in SetIds :
          (/\ ChangeInteractiveOptions(id)
           /\ id \notin DOMAIN optionSets
           /\ apiUrl # Null
           /\ \E j \in InFlight(pending) : pending[j].id = id) =>
             /\ Last(pending').pc = "fetching"
             /\ Cardinality(InFlight(pending')) = Cardinality(InFlight(pending)) + 1
     /\ \A i \in 1..MaxInFlight, list \in RemoteLists :
          (FetchOk(i, list) /\ pending[i].id \in DOMAIN optionSets) =>
             /\ arrays'[optionSets'[pending[i].id]] = list
             /\ InFlight(pending') = InFlight(pending) \ {i}]_vars

\* C24, its case: two requests for "menu" overlapped, the first was answered
\* [optUrl] and then the second [], and the entry holds the second answer.
C24_Witness ==
  /\ Len(pending) = 2
  /\ \A i \in {1, 2} : pending[i].id = "menu" /\ pending[i].how = "remote" /\ pending[i].pc = "resolved"
  /\ pending[1].turn < pending[2].turn
  /\ arrays[pending[1].ref] = <<optUrl>>
  /\ arrays[pending[2].ref] = <<>>
  /\ optionSets["menu"] = pending[2].ref

\* C25: a ChangeOptions dispatch whose id needs a remote fetch leaves the
\* active list and the buttons as they are; only a call whose fetchOptions has
\* returned is ever continued; and while every dispatched call still waits for
\* its answer the active list changes by addInteractiveOption and
\* removeInteractiveOption alone, so a request that never completes leaves
\* the previous list active for good.
C25_ListKeptUntilFetchCompletes ==
  [][/\ \A id \in SetIds :
          (ChangeInteractiveOptions(id) /\ Last(pending').pc = "fetching") =>
             Active' = Active /\ rendered' = rendered
     /\ \A i \in 1..MaxInFlight : Resume(i) => pending[i].pc = "resolved"
     /\ (/\ pending # <<>>
         /\ InFlight(pending) = DOMAIN pending
         /\ (Active' # Active \/ rendered' # rendered)) =>
            \/ \E o \in HostOptions : AddInteractiveOption(o)
            \/ \E id \in HostOptionIds : RemoveInteractiveOption(id)]_vars

\* C25, its case: a request is outstanding and the configured list is still
\* the active one.
C25_Witness ==
  /\ Len(pending) = 1
  /\ pending[1].pc = "fetching"
  /\ Active = ConfigOptions
  /\ rendered = ConfigOptions

\* C26: a ChangeOptions dispatch for an id that is in the mapping has replaced
\* the active list, and the buttons, by the mapped list when the dispatch
\* returns: nothing is left suspended that another operation could run ahead
\* of.
C26_MappedIdReplacesWithinDispatch ==
  [][\A id \in SetIds :
       (ChangeInteractiveOptions(id) /\ id \in DOMAIN optionSets) =>
          /\ Active' = arrays[optionSets[id]]
          /\ rendered' = arrays[optionSets[id]]
          /\ pending' = pending]_vars

\* C23: one observer is kept and registering is the only thing that changes
\* it: onVideoTimeUpdate puts its callback in the place of the previous one,
\* no other step changes the registration, and every time-update calls the
\* registered callback, and no other, with the current time, the duration and
\* the current video id.
C23_OneObserverMostRecentInvoked ==
  [][/\ \A callback \in Callbacks :
          OnVideoTimeUpdate(callback) => videoTimeUpdateCallback' = callback
     /\ videoTimeUpdateCallback' # videoTimeUpdateCallback =>
          \E callback \in Callbacks : OnVideoTimeUpdate(callback)
     /\ (TimeUpdate /\ videoTimeUpdateCallback # Null) =>
          observed' = [callback |-> videoTimeUpdateCallback,
                       currentTime |-> videoElement'.currentTime,
                       duration |-> Duration(videoElement'),
                       videoId |-> IF currentVideoId = Null THEN "" ELSE currentVideoId]]_vars

\* C23, amended: closeWidget clears the registration as well.  Registering
\* puts the callback in the place of the previous one, only registering and
\* closeWidget change the registration, and closeWidget leaves none; a
\* time-update calls the callback registered last since the widget was last
\* closed, and no other, with the current time, the duration and the current
\* video id, and calls nothing when there is none; no other step calls an
\* observer.
C23_OneObserverUntilClosed ==
  [][/\ \A callback \in Callbacks :
          OnVideoTimeUpdate(callback) => videoTimeUpdateCallback' = callback
     /\ videoTimeUpdateCallback' # videoTimeUpdateCallback =>
          \/ \E callback \in Callbacks : OnVideoTimeUpdate(callback)
          \/ CloseWidget /\ videoTimeUpdateCallback' = Null
     /\ CloseWidget => videoTimeUpdateCallback' = Null
     /\ (TimeUpdate /\ videoTimeUpdateCallback # Null) =>
          observed' = [callback |-> videoTimeUpdateCallback,
                       currentTime |-> videoElement'.currentTime,
                       duration |-> Duration(videoElement'),
                       videoId |-> IF currentVideoId = Null THEN "" ELSE currentVideoId]
     /\ (TimeUpdate /\ videoTimeUpdateCallback = Null) => observed' = NoCall
     /\ observed' # NoCall => TimeUpdate]_vars

\* C23, its case: observer2, registered in the place of observer1 or alone,
\* has just been called at time 1 of video "b".
C23_Witness ==
  /\ observed.callback = "observer2"
  /\ observed.currentTime = 1
  /\ observed.videoId = "b"
  /\ videoTimeUpdateCallback = "observer2"

\* C27: when the media element rejects the play() of a playVideo(id) for a
\* listed id, the failure is written to the console and that is all:
\* currentVideoId is id, the element is bound to the source of that video, and
\* it is left paused with no playback under way.  This holds of a PlayVideo
\* dispatch and of every other caller of playVideo.
C27_RejectedPlayOnlyReported ==
  [][/\ \A k \in 1..(Len(ConfigOptions) + MaxCopies) :
          (/\ ClickPlayVideo(k, FALSE)
           /\ rendered[k].payload \in IdsOf(videos)
           /\ MayPlay(widgetDisplay, containerDisplay)) =>
             /\ reported' = ErrorPlaying
             /\ currentVideoId' = rendered[k].payload
             /\ videoElement'.src = videos[Find(videos, rendered[k].payload)].url
             /\ videoElement'.paused
             /\ ~videoElement'.playQueued
             /\ videos' = videos
     /\ (reported' = ErrorPlaying /\ ~(\E allowed \in BOOLEAN : TogglePlayPause(allowed))) =>
          /\ currentVideoId' \in IdsOf(videos')
          /\ videoElement'.src = videos'[Find(videos', currentVideoId')].url
          /\ videoElement'.paused
          /\ ~videoElement'.playQueued]_vars

\* C27, its case: the play() of playVideo("b") has just been rejected in the
\* expanded widget.
C27_Witness ==
  /\ reported = ErrorPlaying
  /\ widgetDisplay = "block"
  /\ currentVideoId = "b"
  /\ videoElement.src = videoB.url
  /\ videoElement.paused
  /\ videoElement.metadataQueued

\* C28: every toggleWidget flips isMinimized and nothing else changes it.  A
\* toggle that expands the widget with a current video binds the element to
\* that video's source again and requests playback (it plays, or the rejection
\* is reported); one that expands it with no current video leaves the element
\* alone and requests nothing.
C28_ToggleAlternatesAndResumes ==
  [][/\ isMinimized' # isMinimized => \E allowed \in BOOLEAN : ToggleWidget(allowed)
     /\ \A allowed \in BOOLEAN :
          ToggleWidget(allowed) =>
             /\ isMinimized' = ~isMinimized
             /\ (isMinimized /\ currentVideoId # Null) =>
                   /\ currentVideoId' = currentVideoId
                   /\ videoElement'.src = videos[Find(videos, currentVideoId)].url
                   /\ videoElement'.currentTime = 0
                   /\ IF allowed
                      THEN ~videoElement'.paused /\ reported' = Silent
                      ELSE videoElement'.paused /\ reported' = ErrorPlaying
             /\ (isMinimized /\ currentVideoId = Null) =>
                   /\ currentVideoId' = Null
                   /\ videoElement' = videoElement
                   /\ reported' = Silent]_vars

\* C28, its case: the widget of the later revision, where only an expanded
\* widget is played in, has been expanded and plays the current video.
C28_Witness ==
  /\ revision = "later"
  /\ ~isMinimized
  /\ currentVideoId = "a"
  /\ videoElement.src = videoA.url
  /\ ~videoElement.paused

\* C30: no two videos of the list carry the same id, in any state reached by
\* addVideo and removeVideo from a configuration whose ids are unique.
C30_VideoIdsUnique ==
  \A j, k \in DOMAIN videos : videos[j].id = videos[k].id => j = k

\* C29: a video whose source could not be materialized keeps the url it came
\* with and is in the list, where playVideo finds it: a configured video
\* after the failed fetch of loadVideos (as far as removeVideo has not taken
\* it out), and a video passed to addVideo after the failed fetch of addVideo.
C29_FailedMaterializationKeepsVideo ==
  [][/\ LoadVideoFail =>
          /\ videos' = videos
          /\ \A k \in DOMAIN videos :
               videos[k] = loadQueue[1] => Find(videos', loadQueue[1].id) # 0
     /\ \A video \in LoadHostVideos :
          AddVideoFailed(video) =>
             /\ \E k \in DOMAIN videos' : videos'[k] = video
             /\ Find(videos', video.id) # 0]_vars

\* C22: the continuation of a ChangeOptions that resolved from the mapping
\* makes the mapped list the active list and the buttons, and dispatching a
\* PlayVideo option of the buttons, whatever set it came from, makes its
\* payload the current video and binds that video's source whenever the list
\* holds a video with that id; so with the videos a and b and the set "menu"
\* of one PlayVideo option for "b", ChangeOptions("menu") followed by the
\* dispatch of the one option then active ends with currentVideoId = "b".
C22_ResolvedPlayVideoOptionSwitches ==
  [][/\ \A i \in 1..MaxInFlight :
          (Resume(i) /\ pending[i].how = "cache" /\ pending[i].id \in DOMAIN optionSets
             /\ optionSets[pending[i].id] = pending[i].ref) =>
             rendered' = arrays[optionSets[pending[i].id]]
     /\ \A k \in 1..(Len(ConfigOptions) + MaxCopies), allowed \in BOOLEAN :
          (ClickPlayVideo(k, allowed) /\ rendered[k].payload \in IdsOf(videos)) =>
             /\ currentVideoId' = rendered[k].payload
             /\ videoElement'.src = videos[Find(videos, rendered[k].payload)].url
     /\ \A allowed \in BOOLEAN :
          (ClickPlayVideo(1, allowed) /\ rendered = <<optPlayB>> /\ videos = <<videoA, videoB>>) =>
             currentVideoId' = "b"]_vars

\* C22, its case: both videos are listed, the list of "menu" is the active
\* one and on the buttons, no call is suspended, and "b" is current and bound.
C22_Witness ==
  /\ videos = <<videoA, videoB>>
  /\ "menu" \in DOMAIN optionSets
  /\ interactiveOptions = optionSets["menu"]
  /\ rendered = <<optPlayB>>
  /\ pending = <<>>
  /\ currentVideoId = "b"
  /\ videoElement.src = videoB.url

\* C31: addOptionSet(id, options) leaves id mapped to options whatever it was
\* mapped to before; removeOptionSet(id) leaves id unmapped and, when it was
\* not mapped, the mapping as it was; a ChangeOptions dispatched for an
\* unmapped id does not resolve from the mapping; and neither operation
\* changes the active list or the buttons, not even when the active list is
\* the array the id was mapped to.
C31_AddOverwritesRemoveDeletes ==
  [][/\ \A id \in SetIds, options \in HostLists :
          AddOptionSet(id, options) =>
             /\ DOMAIN optionSets' = DOMAIN optionSets \cup {id}
             /\ arrays'[optionSets'[id]] = options
             /\ Active' = Active
             /\ rendered' = rendered
     /\ \A id \in SetIds :
          RemoveOptionSet(id) =>
             /\ DOMAIN optionSets' = DOMAIN optionSets \ {id}
             /\ \A other \in DOMAIN optionSets' :
                  arrays'[optionSets'[other]] = arrays[optionSets[other]]
             /\ Active' = Active
             /\ rendered' = rendered
     /\ \A id \in SetIds :
          (ChangeInteractiveOptions(id) /\ id \notin DOMAIN optionSets) =>
             /\ Last(pending').how # "cache"
             /\ Last(pending').pc = "resolved" => arrays'[Last(pending').ref] = <<>>]_vars

\* C31, its case: the set the active list came from has been removed, the
\* list is still active and on the buttons, and a ChangeOptions dispatched
\* for the id since has found nothing.
C31_Witness ==
  /\ optionSets = << >>
  /\ Active = <<optPlayB>>
  /\ rendered = <<optPlayB>>
  /\ \E i \in DOMAIN pending : pending[i].how = "none"

\* C32: with no set registered under 'default' and no endpoint, the
\* continuation of a ChangeOptions('default'), dispatched by the "Back"
\* button or by the page's observer, makes the list given at configuration
\* time the active list again.
C32_DefaultRestoresConfiguredList ==
  [][\A i \in 1..MaxInFlight :
       (/\ Resume(i)
        /\ pending[i].id = optBack.payload
        /\ optBack.payload \notin DOMAIN optionSets
        /\ apiUrl = Null) =>
          Active' = ConfigOptions /\ rendered' = ConfigOptions]_vars

\* C33: whenever the media element has a source bound, currentVideoId is set
\* and the list holds a video with that id whose url is the bound source; so
\* once removeVideo has taken the current video out and none is left, the
\* element has no source and plays nothing.
C33_BoundSourceIsCurrentVideo ==
  videoElement.src # "" =>
     /\ currentVideoId # Null
     /\ \E k \in DOMAIN videos :
          videos[k].id = currentVideoId /\ videos[k].url = videoElement.src

\* C34: addVideo of a video whose url is not a blob: URL leaves the list as it
\* is and only starts the fetch; the video joins the list, at its end and with
\* an object URL, when that fetch succeeds, and by no other step.  In between,
\* a PlayVideo dispatch for its id, which the list does not hold, changes
\* nothing, and removeVideo, whatever id it is given, leaves the fetch under
\* way: the video joins the list after the removeVideo.
C34_AddVideoJoinsOnFetchSuccess ==
  [][/\ \A video \in LoadHostVideos :
          (AddVideo(video) /\ ~IsBlobUrl(video.url)) =>
             videos' = videos /\ video \in adding'
     /\ \A video \in LoadHostVideos :
          AddVideoLoaded(video) =>
             videos' = Append(videos, [video EXCEPT !.url = ObjectUrl(video)])
     /\ \A k \in 1..(Len(ConfigOptions) + MaxCopies), allowed \in BOOLEAN :
          (/\ ClickPlayVideo(k, allowed)
           /\ rendered[k].payload \notin IdsOf(videos)
           /\ \E v \in adding : v.id = rendered[k].payload) =>
             /\ currentVideoId' = currentVideoId
             /\ videoElement' = videoElement
             /\ videos' = videos
             /\ adding' = adding
     /\ \A videoId \in VideoIds, allowed \in BOOLEAN :
          RemoveVideo(videoId, allowed) => adding' = adding
     /\ \A video \in adding :
          (\E k \in DOMAIN videos' : videos'[k].id = video.id) =>
             \/ \E k \in DOMAIN videos : videos[k].id = video.id
             \/ AddVideoLoaded(video)
             \/ \E other \in LoadHostVideos : other.id = video.id /\ AddVideo(other)]_vars

\* C34, its case: loadVideos has materialized nothing yet, so the "b" with an
\* object URL at the end of the list is the one the host removed and added
\* anew, joined when its fetch succeeded.
C34_Witness ==
  /\ loadQueue = <<videoA, videoB>>
  /\ videos = <<videoA, [videoB EXCEPT !.url = ObjectUrl(videoB)]>>
  /\ adding = {}

\* C35: closeWidget leaves no observer registered; resetClosedState and show
\* leave the registration as it is, and an observer comes to be registered by
\* onVideoTimeUpdate alone; with none registered no step calls an observer.
\* So from a close until the host registers anew, no time-update reaches a
\* callback, whether or not the widget has been reset and shown again.
C35_CloseClearsObserverForGood ==
  [][/\ CloseWidget => videoTimeUpdateCallback' = Null
     /\ (ResetClosedState \/ Show) => videoTimeUpdateCallback' = videoTimeUpdateCallback
     /\ (videoTimeUpdateCallback = Null /\ videoTimeUpdateCallback' # Null) =>
          \E callback \in Callbacks : OnVideoTimeUpdate(callback)
     /\ videoTimeUpdateCallback = Null => observed' = NoCall]_vars

\* C35, its case: the widget of the later revision is closed, which stopped
\* the element and put it back to time 0; playback has since gone on to time
\* 1 with no observer registered, so that time-update called nothing.
C35_Witness ==
  /\ revision = "later"
  /\ sessionClosed
  /\ videoTimeUpdateCallback = Null
  /\ videoElement.currentTime = 1
  /\ observed = NoCall

\* C36: hide and a toggle to Minimized leave currentVideoId as it is and the
\* media element with no source and paused; show changes neither the element
\* nor currentVideoId, so after hide and show the container is displayed,
\* currentVideoId is what it was and nothing is bound or playing; and the
\* current video is bound again by a toggle, a replay or a PlayVideo dispatch
\* only.
C36_HideShowDoesNotRestorePlayback ==
  [][/\ Hide =>
          /\ currentVideoId' = currentVideoId
          /\ videoElement'.src = ""
          /\ videoElement'.paused
     /\ \A allowed \in BOOLEAN :
          (ToggleWidget(allowed) /\ ~isMinimized) =>
             /\ currentVideoId' = currentVideoId
             /\ videoElement'.src = ""
             /\ videoElement'.paused
     /\ Show =>
          /\ currentVideoId' = currentVideoId
          /\ videoElement' = videoElement
          /\ ~sessionClosed => containerDisplay' = "block"
     /\ (/\ videoElement.src = ""
         /\ currentVideoId # Null
         /\ currentVideoId' = currentVideoId
         /\ (videoElement'.src # "" \/ ~videoElement'.paused)) =>
            \/ \E allowed \in BOOLEAN : ToggleWidget(allowed)
            \/ \E allowed \in BOOLEAN : ReplayVideo(allowed)
            \/ \E k \in 1..(Len(ConfigOptions) + MaxCopies), allowed \in BOOLEAN :
                 ClickPlayVideo(k, allowed)]_vars

\* C37: in every reachable state isMinimized is true exactly when the expanded
\* widget is not displayed and exactly when the minimized avatar is, whatever
\* show, hide, closeWidget and the option dispatches have done in between.
C37_MinimizedFlagAgreesWithDisplay ==
  /\ isMinimized <=> widgetDisplay = "none"
  /\ isMinimized <=> minimizedDisplay # "none"

\* C37, its case: the widget was expanded and then closed: the container is
\* hidden, and the flag and the two displays still say Expanded.
C37_Witness ==
  /\ ~isMinimized
  /\ widgetDisplay = "block"
  /\ minimizedDisplay = "none"
  /\ containerDisplay = "none"
  /\ sessionClosed

\* C38: a state the constructor leaves is Minimized; with a non-empty video
\* list its currentVideoId is the id of the first video, the element is
\* paused with no playback under way and no rejected play() has been
\* reported; with an empty list its currentVideoId is none.
C38_ConstructedMinimizedAndSilent ==
  Init =>
     /\ isMinimized
     /\ videos # <<>> =>
          /\ currentVideoId = videos[1].id
          /\ videoElement.paused
          /\ ~videoElement.playQueued
          /\ reported = Silent
     /\ videos = <<>> => currentVideoId = Null

\* C39: when every request is answered and ChangeOptions dispatches come to an
\* end, every dispatched call completes: from some point on none is
\* suspended.  None is dropped on the way: a call leaves only by its own
\* continuation, one at a time, and every continuation makes the result of
\* its call the active list and the buttons, so that the list is in the end
\* the result of the call whose continuation ran last.
C39_EveryDispatchCompletes ==
  /\ ([]<><<Dispatch>>_vars) \/ <>[](pending = <<>>)
  /\ [][/\ Len(pending') < Len(pending) =>
               /\ Continue
               /\ Len(pending') = Len(pending) - 1
          /\ \A i \in 1..MaxInFlight :
               Resume(i) =>
                  /\ arrays'[interactiveOptions'] = arrays[pending[i].ref]
                  /\ rendered' = arrays[pending[i].ref]]_vars

\* C39, its case: no call is suspended any more, and the continuation that
\* ran last belonged to a call that a later-dispatched one had overtaken: its
\* result, from the endpoint, is the active list.
C39_Witness ==
  /\ pending = <<>>
  /\ appliedStale
  /\ Active = <<optUrl>>
  /\ rendered = <<optUrl>>

====
